---- MODULE Spec2Model ----
(***************************************************************************)
(* Weighted least-connections load balancer: the ServerPool min-heap       *)
(* (server_heap.go), the Server record (main.go), the health checker       *)
(* (HealthChecker.go) and the request handler ForwardRequest.              *)
(*                                                                         *)
(* Records are pointers in the program; here a record is its number in     *)
(* 1..NumServers and every field is a function over the records.  Heap     *)
(* positions are 0-based as in the source; the array p.servers is a TLA+   *)
(* sequence, so slot i of the source is element i+1 of the sequence.       *)
(***************************************************************************)
EXTENDS Integers, Sequences, FiniteSets, TLC

\* ------------------------------------------------------------- bounds
NumServers == 3
NumBackends == 2
NumRequests == 1
NumMonitors == 2
NumCallers == 3
MaxConn == 2
MaxHeapLen == 3
MaxPanics == 1
MaxActive == 60

\* ---------------------------------------------------------- constants
Absent == -1
DefaultWeight == 1

Server == 1..NumServers
Nil == 0
Request == 1..NumRequests
Monitor == 1..NumMonitors
Caller == 1..NumCallers

VARIABLES
    servers,            \* ServerPool.servers: the heap array
    Index,              \* Server.Index of every record
    ActiveConnections,  \* Server.ActiveConnections of every record
    Weight,             \* Server.Weight of every record
    Health,             \* Server.Health of every record
    allServers,         \* the global list of known records
    lastOp,             \* history: the pool call made by the last step
    everAdded,          \* history: the records AddServer was ever called on
    phase,              \* main: "boot" until loadConfig returned, then "serving"
    req,                \* every ForwardRequest in flight: where it stands
    mon,                \* every run of the health-check job: where it stands
    panics,             \* how many forwards ended in a panic so far
    removed,            \* history: removed by a health check, not re-added since
    lock,               \* ServerPool.lock: the caller holding it, or Nil
    caller,             \* TestConcurrency's goroutines: where each stands
    stage,              \* TestConcurrency: its phase, record, first count, N
    mux                 \* Server.mux of every record: its writer, its readers

poolVars == <<servers, Index, ActiveConnections>>
coreVars == <<servers, Index, ActiveConnections, Weight, Health, allServers>>
histVars == <<lastOp, everAdded>>
sysVars == <<phase, req, mon, panics, removed>>
concVars == <<lock, caller, stage, mux>>

vars == <<servers, Index, ActiveConnections, Weight, Health, allServers,
          lastOp, everAdded, phase, req, mon, panics, removed,
          lock, caller, stage, mux>>

\* -------------------------------------------------- configuration load
\* Mutant of NormWeight: only a negative weight is replaced, 0 is kept.
NormWeightKeepsZero(w) == IF w < 0 THEN DefaultWeight ELSE w

\* loadConfig: s.Weight = c.Weight; if s.Weight <= 0 { s.Weight = 1 }
NormWeight(w) == IF w <= 0 THEN DefaultWeight ELSE w

\* The configuration files of NumServers entries, by their weights.
ConfigWeights == {-1, 0, 1, 2}
Configs == [Server -> ConfigWeights]

\* The weights the records of a configuration file end up with.
LoadedWeights == {[s \in Server |-> NormWeight(c[s])] : c \in Configs}

\* ------------------------------------------------------------ the heap
\* The memory the pool works on as one value: the array, and the positions,
\* counts and weights of the records.
Pool ==
    [servers |-> servers, Index |-> Index, Active |-> ActiveConnections,
     Weight |-> Weight]

\* h[i] of the source.
At(p, i) == p.servers[i + 1]

\* Mutant of Less: the raw counts are compared, the weights left out.
LessRawCount(p, i, j) == p.Active[At(p, i)] < p.Active[At(p, j)]

\* ServerHeap.Less: float64(a_i)/float64(w_i) < float64(a_j)/float64(w_j).
\* Weights are >= 1 and the counts are small, so the two quotients are
\* exactly ordered as the cross products are.
Less(p, i, j) ==
    p.Active[At(p, i)] * p.Weight[At(p, j)]
        < p.Active[At(p, j)] * p.Weight[At(p, i)]

\* ServerHeap.Swap: the two slots exchanged, then h[i].Index = i and
\* h[j].Index = j, in that order.
Swap(p, i, j) ==
    LET a == At(p, i)
        b == At(p, j)
        arr == [p.servers EXCEPT ![i + 1] = b, ![j + 1] = a]
        ix1 == [p.Index EXCEPT ![b] = i]
        ix2 == [ix1 EXCEPT ![a] = j]
    IN  [p EXCEPT !.servers = arr, !.Index = ix2]

\* ServerHeap.Push: item.Index = n; append.
Push(p, s) ==
    [p EXCEPT !.Index = [p.Index EXCEPT ![s] = Len(p.servers)],
              !.servers = Append(p.servers, s)]

\* ServerHeap.Pop: the last record leaves, its Index set to -1.
Pop(p) ==
    LET n == Len(p.servers)
        item == p.servers[n]
    IN  [p EXCEPT !.Index = [p.Index EXCEPT ![item] = Absent],
                  !.servers = SubSeq(p.servers, 1, n - 1)]

\* (j - 1) / 2 of Go, which truncates toward zero: the parent of 0 is 0.
Parent(j) == IF j = 0 THEN 0 ELSE (j - 1) \div 2

\* container/heap.up
RECURSIVE up(_, _)
up(p, j) ==
    LET i == Parent(j)
    IN  IF i = j \/ ~Less(p, j, i) THEN p ELSE up(Swap(p, i, j), i)

\* container/heap.down, from slot i with the heap cut at n: the memory
\* afterwards and the slot the record came to rest in.
RECURSIVE down(_, _, _)
down(p, i, n) ==
    LET j1 == 2 * i + 1
        j == IF j1 + 1 < n /\ Less(p, j1 + 1, j1) THEN j1 + 1 ELSE j1
    IN  IF j1 >= n THEN [p |-> p, i |-> i]
        ELSE IF ~Less(p, j, i) THEN [p |-> p, i |-> i]
        ELSE down(Swap(p, i, j), j, n)

\* container/heap.Fix: if !down(h, i, h.Len()) { up(h, i) }
HeapFix(p, i) ==
    LET d == down(p, i, Len(p.servers))
    IN  IF d.i > i THEN d.p ELSE up(d.p, i)

\* container/heap.Push: h.Push(x); up(h, h.Len()-1)
HeapPush(p, s) ==
    LET q == Push(p, s) IN up(q, Len(q.servers) - 1)

\* container/heap.Remove
HeapRemove(p, i) ==
    LET n == Len(p.servers) - 1
        sw == Swap(p, i, n)
        d == down(sw, i, n)
        q == IF n # i THEN (IF d.i > i THEN d.p ELSE up(d.p, i)) ELSE p
    IN  Pop(q)

\* ------------------------------------------------------ the ServerPool
\* Each method runs between p.lock.Lock() and the deferred Unlock().

AddServer(p, s) == HeapPush(p, s)

\* Mutant of GetNextServer: no nil for an empty array, the first record instead.
GetNextServerNoNil(p) == IF Len(p.servers) = 0 THEN 1 ELSE At(p, 0)

GetNextServer(p) == IF Len(p.servers) = 0 THEN Nil ELSE At(p, 0)

\* Mutant of IncrementActive: nothing at all is done for an absent record.
IncrementActiveSkipsAbsent(p, s) ==
    LET q == [p EXCEPT !.Active = [p.Active EXCEPT ![s] = @ + 1]]
    IN  IF p.Index[s] # Absent THEN HeapFix(q, q.Index[s]) ELSE p

IncrementActive(p, s) ==
    LET q == [p EXCEPT !.Active = [p.Active EXCEPT ![s] = @ + 1]]
    IN  IF q.Index[s] # Absent THEN HeapFix(q, q.Index[s]) ELSE q

DecrementActive(p, s) ==
    LET q == [p EXCEPT !.Active = [p.Active EXCEPT ![s] = @ - 1]]
    IN  IF q.Index[s] # Absent THEN HeapFix(q, q.Index[s]) ELSE q

\* Mutant of RemoveServer: the absent position is taken for slot 0 (the zero
\* value of Index) and the record in that slot is removed.
RemoveServerZeroSentinel(p, s) ==
    LET i == IF p.Index[s] = Absent THEN 0 ELSE p.Index[s]
    IN  IF Len(p.servers) > 0
        THEN LET q == HeapRemove(p, i)
             IN  [q EXCEPT !.Index = [q.Index EXCEPT ![s] = Absent]]
        ELSE p

RemoveServer(p, s) ==
    IF p.Index[s] # Absent
    THEN LET q == HeapRemove(p, p.Index[s])
         IN  [q EXCEPT !.Index = [q.Index EXCEPT ![s] = Absent]]
    ELSE p

\* The slots of array arr that hold record s.
Slots(arr, s) == {i \in 1..Len(arr) : arr[i] = s}

\* The pool's memory written back to the variables.
Store(q) ==
    /\ servers' = q.servers
    /\ Index' = q.Index
    /\ ActiveConnections' = q.Active

\* ------------------------------------------------ values at rest
\* Each specification below drives a part of the variables; the others
\* rest at these values.
NoOp == [op |-> "none", s |-> Nil, absent |-> FALSE, ret |-> Nil]
IdleRequest == [pc |-> "idle", target |-> Nil, status |-> "none", acquired |-> FALSE]
IdleMonitor == [pc |-> "idle", i |-> 0, alive |-> FALSE, clean |-> TRUE]
IdleCaller == [pc |-> "done", tmp |-> 0]
NoTest == [at |-> "end", s |-> Nil, prior |-> 0, n |-> 0]

HistAtRest == lastOp = NoOp /\ everAdded = {}

SysAtRest ==
    /\ phase = "off"
    /\ req = [r \in Request |-> IdleRequest]
    /\ mon = [m \in Monitor |-> IdleMonitor]
    /\ panics = 0
    /\ removed = {}

\* A sync.RWMutex no one holds, for every record.
NoMux == [s \in Server |-> [w |-> Nil, r |-> {}]]

ConcAtRest ==
    /\ lock = Nil
    /\ mux = NoMux
    /\ caller = [c \in Caller |-> IdleCaller]
    /\ stage = NoTest

\* ----------------------------------------------- the pool on its own
\* Records built as loadConfig builds them (newServer, then the weight),
\* an empty ServerPool{}, and then any sequence of calls of its methods,
\* as the unit tests make them.

InitPool ==
    /\ servers = <<>>
    /\ Index = [s \in Server |-> Absent]
    /\ ActiveConnections = [s \in Server |-> 0]
    /\ Health = [s \in Server |-> TRUE]
    /\ Weight \in LoadedWeights
    /\ allServers = <<>>
    /\ HistAtRest
    /\ SysAtRest
    /\ ConcAtRest

Called(op, s, r) ==
    lastOp' = [op |-> op, s |-> s, absent |-> (s # Nil /\ Index[s] = Absent),
               ret |-> r]

CallAddServer(s) ==
    /\ Len(servers) < MaxHeapLen
    /\ Store(AddServer(Pool, s))
    /\ Called("AddServer", s, Nil)
    /\ everAdded' = everAdded \cup {s}
    /\ UNCHANGED <<Weight, Health, allServers, sysVars, concVars>>

CallRemoveServer(s) ==
    /\ Store(RemoveServer(Pool, s))
    /\ Called("RemoveServer", s, Nil)
    /\ UNCHANGED <<Weight, Health, allServers, everAdded, sysVars, concVars>>

CallIncrementActive(s) ==
    /\ ActiveConnections[s] < MaxConn
    /\ Store(IncrementActive(Pool, s))
    /\ Called("IncrementActive", s, Nil)
    /\ UNCHANGED <<Weight, Health, allServers, everAdded, sysVars, concVars>>

CallDecrementActive(s) ==
    /\ ActiveConnections[s] > 0
    /\ Store(DecrementActive(Pool, s))
    /\ Called("DecrementActive", s, Nil)
    /\ UNCHANGED <<Weight, Health, allServers, everAdded, sysVars, concVars>>

CallGetNextServer ==
    /\ Called("GetNextServer", Nil, GetNextServer(Pool))
    /\ UNCHANGED <<coreVars, everAdded, sysVars, concVars>>

NextPool ==
    \/ \E s \in Server : CallAddServer(s)
    \/ \E s \in Server : CallRemoveServer(s)
    \/ \E s \in Server : CallIncrementActive(s)
    \/ \E s \in Server : CallDecrementActive(s)
    \/ CallGetNextServer

SpecPool == InitPool /\ [][NextPool]_vars

\* ------------------------------------- concurrent callers of the pool
\* TestConcurrency: N goroutines call pool.IncrementActive(s), the test
\* waits for all of them, then N goroutines call pool.DecrementActive(s).
\* A call is p.lock.Lock(), the read of s.ActiveConnections, the write of
\* the new count with the heap.Fix that follows, and the deferred Unlock.

\* The arrays a pool of records with equal ratios can hold: any records,
\* each once, in any order.
StartArrays ==
    UNION {{f \in [1..n -> Server] : \A i, j \in 1..n : f[i] = f[j] => i = j}
           : n \in 0..NumServers}

FreshPool(arr, w) ==
    [servers |-> arr,
     Index |-> [s \in Server |->
                  IF Slots(arr, s) = {} THEN Absent
                  ELSE (CHOOSE i \in Slots(arr, s) : TRUE) - 1],
     Active |-> [s \in Server |-> 0],
     Weight |-> w]

\* k calls of IncrementActive(s), one after the other.
RECURSIVE Raised(_, _, _)
Raised(p, s, k) == IF k = 0 THEN p ELSE Raised(IncrementActive(p, s), s, k - 1)

InitConc ==
    /\ \E arr \in StartArrays, s \in Server, k \in 0..MaxConn,
          n \in 1..NumCallers, w \in LoadedWeights :
          LET p == Raised(FreshPool(arr, w), s, k)
          IN  /\ servers = p.servers
              /\ Index = p.Index
              /\ ActiveConnections = p.Active
              /\ Weight = p.Weight
              /\ stage = [at |-> "inc", s |-> s, prior |-> k, n |-> n]
              /\ caller = [x \in Caller |->
                             IF x <= n THEN [pc |-> "lock", tmp |-> 0]
                             ELSE IdleCaller]
    /\ Health = [s \in Server |-> TRUE]
    /\ allServers = <<>>
    /\ lock = Nil
    /\ mux = NoMux
    /\ HistAtRest
    /\ SysAtRest

\* Mutant of CanLock: Lock() never waits.
CanLockAlways(c) == TRUE

\* p.lock.Lock() returns only while no one holds the mutex.
CanLock(c) == lock = Nil

CallerLock(c) ==
    /\ caller[c].pc = "lock"
    /\ CanLock(c)
    /\ lock' = c
    /\ caller' = [caller EXCEPT ![c].pc = "load"]
    /\ UNCHANGED <<coreVars, histVars, sysVars, stage, mux>>

\* s.ActiveConnections++ / --: the count is read ...
CallerLoad(c) ==
    /\ caller[c].pc = "load"
    /\ caller' = [caller EXCEPT ![c].pc = "store",
                                ![c].tmp = ActiveConnections[stage.s]]
    /\ UNCHANGED <<coreVars, histVars, sysVars, lock, stage, mux>>

\* ... and written one higher (lower); then the heap.Fix and the Unlock.
CallerStore(c) ==
    /\ caller[c].pc = "store"
    /\ LET p == [Pool EXCEPT !.Active = [Pool.Active EXCEPT ![stage.s] = caller[c].tmp]]
       IN  IF stage.at = "inc"
           THEN Store(IncrementActive(p, stage.s))
           ELSE Store(DecrementActive(p, stage.s))
    /\ lock' = Nil
    /\ caller' = [caller EXCEPT ![c].pc = "done"]
    /\ UNCHANGED <<Weight, Health, allServers, histVars, sysVars, stage, mux>>

AllDone == \A c \in Caller : caller[c].pc = "done"

\* wg.Wait() after the increments: the decrementing goroutines start.
WaitIncrements ==
    /\ stage.at = "inc"
    /\ AllDone
    /\ stage' = [stage EXCEPT !.at = "dec"]
    /\ caller' = [x \in Caller |->
                    IF x <= stage.n THEN [pc |-> "lock", tmp |-> 0] ELSE IdleCaller]
    /\ UNCHANGED <<coreVars, histVars, sysVars, lock, mux>>

\* wg.Wait() after the decrements.
WaitDecrements ==
    /\ stage.at = "dec"
    /\ AllDone
    /\ stage' = [stage EXCEPT !.at = "end"]
    /\ UNCHANGED <<coreVars, histVars, sysVars, lock, caller, mux>>

NextConc ==
    \/ \E c \in Caller : CallerLock(c)
    \/ \E c \in Caller : CallerLoad(c)
    \/ \E c \in Caller : CallerStore(c)
    \/ WaitIncrements
    \/ WaitDecrements

SpecConc == InitConc /\ [][NextConc]_vars

\* ------------------------------------------- the pool under fixed loads
\* A pool as TestLeastConnectionsHeap builds it: two records made with a
\* weight and given a count in flight, each added once to an empty
\* ServerPool{}, and then IncrementActive calls on either.

ScenarioRecords == {1, 2}
ScenarioWeights == {<<1, 1>>, <<10, 2>>, <<2, 10>>}
ScenarioCounts == {0, 10, 20}

InitRatio ==
    /\ servers = <<>>
    /\ Index = [s \in Server |-> Absent]
    /\ \E w \in ScenarioWeights :
          Weight = [s \in Server |-> IF s \in ScenarioRecords THEN w[s]
                                     ELSE DefaultWeight]
    /\ \E a, b \in ScenarioCounts :
          ActiveConnections = [s \in Server |-> IF s = 1 THEN a
                                                ELSE IF s = 2 THEN b ELSE 0]
    /\ Health = [s \in Server |-> TRUE]
    /\ allServers = <<>>
    /\ HistAtRest
    /\ SysAtRest
    /\ ConcAtRest

RatioAddServer(s) ==
    /\ Index[s] = Absent
    /\ s \notin everAdded
    /\ Store(AddServer(Pool, s))
    /\ Called("AddServer", s, Nil)
    /\ everAdded' = everAdded \cup {s}
    /\ UNCHANGED <<Weight, Health, allServers, sysVars, concVars>>

RatioIncrementActive(s) ==
    /\ ActiveConnections[s] < MaxActive
    /\ Store(IncrementActive(Pool, s))
    /\ Called("IncrementActive", s, Nil)
    /\ UNCHANGED <<Weight, Health, allServers, everAdded, sysVars, concVars>>

NextRatio ==
    \/ \E s \in ScenarioRecords : RatioAddServer(s)
    \/ \E s \in ScenarioRecords : RatioIncrementActive(s)

SpecRatio == InitRatio /\ [][NextRatio]_vars

\* ---------------------------------------------------- the whole program
\* main: loadConfig, then the request handler and the health-check job run
\* side by side.  A pool method is one step: it runs under p.lock.

ProbeResponses == {"status200", "status500", "timeout", "refused"}

\* Mutant of Ping: any response that comes back counts as alive.
PingAnyAnswer(resp) == resp \notin {"timeout", "refused"}

\* Server.Ping: false on a client error (timeout, refused connection), else
\* whether the status is 200.
Ping(resp) ==
    IF resp \in {"timeout", "refused"} THEN FALSE ELSE resp = "status200"

\* The records of the configuration file, in its order.
Backend == 1..NumBackends

\* Mutant of LoadEntries: the records are appended to allServers only, the
\* last of them is not added to the pool.
RECURSIVE LoadEntriesSkipsLast(_, _, _, _)
LoadEntriesSkipsLast(cfg, k, p, all) ==
    IF k > NumBackends THEN [p |-> p, all |-> all]
    ELSE LET fresh == [p EXCEPT !.Index = [p.Index EXCEPT ![k] = Absent],
                                !.Active = [p.Active EXCEPT ![k] = 0],
                                !.Weight = [p.Weight EXCEPT ![k] = NormWeight(cfg[k])]]
         IN  LoadEntriesSkipsLast(cfg, k + 1,
                 IF k = NumBackends THEN fresh ELSE AddServer(fresh, k),
                 Append(all, k))

\* loadConfig's loop from entry k on: newServer, the weight, the append to
\* allServers, pool.AddServer.
RECURSIVE LoadEntries(_, _, _, _)
LoadEntries(cfg, k, p, all) ==
    IF k > NumBackends THEN [p |-> p, all |-> all]
    ELSE LET fresh == [p EXCEPT !.Index = [p.Index EXCEPT ![k] = Absent],
                                !.Active = [p.Active EXCEPT ![k] = 0],
                                !.Weight = [p.Weight EXCEPT ![k] = NormWeight(cfg[k])]]
         IN  LoadEntries(cfg, k + 1, AddServer(fresh, k), Append(all, k))

Init ==
    /\ servers = <<>>
    /\ Index = [s \in Server |-> Absent]
    /\ ActiveConnections = [s \in Server |-> 0]
    /\ Weight = [s \in Server |-> 0]
    /\ Health = [s \in Server |-> FALSE]
    /\ allServers = <<>>
    /\ phase = "boot"
    /\ req = [r \in Request |-> IdleRequest]
    /\ mon = [m \in Monitor |-> IdleMonitor]
    /\ panics = 0
    /\ removed = {}
    /\ HistAtRest
    /\ ConcAtRest

LoadConfig(cfg) ==
    /\ phase = "boot"
    /\ LET l == LoadEntries(cfg, 1, Pool, allServers)
       IN  /\ Store(l.p)
           /\ Weight' = l.p.Weight
           /\ allServers' = l.all
    /\ Health' = [s \in Server |-> IF s \in Backend THEN TRUE ELSE Health[s]]
    /\ phase' = "serving"
    /\ UNCHANGED <<req, mon, panics, removed, histVars, concVars>>

\* Mutant of ForwardRequestStart: with nothing in the pool the first known
\* record is taken instead of answering 503.
ForwardRequestStartFallback(r) ==
    /\ phase = "serving"
    /\ req[r].pc = "idle"
    /\ LET target == IF GetNextServer(Pool) = Nil
                     THEN allServers[1] ELSE GetNextServer(Pool)
       IN  req' = [req EXCEPT ![r] =
                     [pc |-> "increment", target |-> target,
                      status |-> "none", acquired |-> FALSE]]
    /\ UNCHANGED <<coreVars, phase, mon, panics, removed, histVars, concVars>>

\* ForwardRequest: target := pool.GetNextServer(); 503 and return on nil.
ForwardRequestStart(r) ==
    /\ phase = "serving"
    /\ req[r].pc = "idle"
    /\ LET target == GetNextServer(Pool)
       IN  req' = [req EXCEPT ![r] =
                     IF target = Nil
                     THEN [pc |-> "idle", target |-> Nil,
                           status |-> "unavailable", acquired |-> FALSE]
                     ELSE [pc |-> "increment", target |-> target,
                           status |-> "none", acquired |-> FALSE]]
    /\ UNCHANGED <<coreVars, phase, mon, panics, removed, histVars, concVars>>

\* pool.IncrementActive(target)
ForwardRequestIncrement(r) ==
    /\ req[r].pc = "increment"
    /\ Store(IncrementActive(Pool, req[r].target))
    /\ req' = [req EXCEPT ![r].pc = "forward", ![r].acquired = TRUE]
    /\ UNCHANGED <<Weight, Health, allServers, phase, mon, panics, removed,
                   histVars, concVars>>

\* target.ReverseProxy.ServeHTTP(res, rep) returns: the backend answered, or
\* the proxy's error handler answered for it.
ForwardRequestServed(r) ==
    /\ req[r].pc = "forward"
    /\ req' = [req EXCEPT ![r].pc = "decrement"]
    /\ UNCHANGED <<coreVars, phase, mon, panics, removed, histVars, concVars>>

\* target.ReverseProxy.ServeHTTP(res, rep) panics (http.ErrAbortHandler, when
\* the backend breaks off in the middle of its answer): the handler is
\* unwound and nothing after the call runs.
ForwardRequestPanics(r) ==
    /\ req[r].pc = "forward"
    /\ panics < MaxPanics
    /\ panics' = panics + 1
    /\ req' = [req EXCEPT ![r].pc = "idle"]
    /\ UNCHANGED <<coreVars, phase, mon, removed, histVars, concVars>>

\* pool.DecrementActive(target)
ForwardRequestDecrement(r) ==
    /\ req[r].pc = "decrement"
    /\ Store(DecrementActive(Pool, req[r].target))
    /\ req' = [req EXCEPT ![r] = IdleRequest]
    /\ UNCHANGED <<Weight, Health, allServers, phase, mon, panics, removed,
                   histVars, concVars>>

\* The record a run of the job is working on.
Current(m) == allServers[mon[m].i]

\* A step of run m on its record: every other run that stands between its
\* probe of the same record and the end of its work on it has been crossed.
Crossed(m) ==
    [x \in Monitor |->
        IF x # m /\ mon[x].pc \in {"check", "add", "remove"}
                 /\ Current(x) = Current(m)
        THEN [mon[x] EXCEPT !.clean = FALSE]
        ELSE mon[x]]

\* The loop goes on to the next record, or the run ends.
Advance(m, ms) ==
    IF mon[m].i < Len(allServers)
    THEN [ms EXCEPT ![m] = [pc |-> "probe", i |-> mon[m].i + 1,
                            alive |-> FALSE, clean |-> TRUE]]
    ELSE [ms EXCEPT ![m] = IdleMonitor]

\* The scheduler starts a run of the job, whether or not an earlier run is
\* still going.
HealthCheckStart(m) ==
    /\ phase = "serving"
    /\ mon[m].pc = "idle"
    /\ Len(allServers) > 0
    /\ mon' = [mon EXCEPT ![m] = [pc |-> "probe", i |-> 1,
                                  alive |-> FALSE, clean |-> TRUE]]
    /\ UNCHANGED <<coreVars, phase, req, panics, removed, histVars, concVars>>

\* alive := server.Ping(); server.SetHealth(alive)
HealthCheckProbe(m) ==
    /\ mon[m].pc = "probe"
    /\ \E resp \in ProbeResponses :
          /\ Health' = [Health EXCEPT ![Current(m)] = Ping(resp)]
          /\ mon' = [Crossed(m) EXCEPT ![m].pc = "check",
                                       ![m].alive = Ping(resp),
                                       ![m].clean = TRUE]
    /\ UNCHANGED <<servers, Index, ActiveConnections, Weight, allServers,
                   phase, req, panics, removed, histVars, concVars>>

\* if alive && server.Index == -1 {...} else if !alive && server.Index != -1
\* {...}: server.Index is read outside the pool's lock.
HealthCheckCheck(m) ==
    /\ mon[m].pc = "check"
    /\ mon' = IF mon[m].alive /\ Index[Current(m)] = Absent
              THEN [Crossed(m) EXCEPT ![m].pc = "add"]
              ELSE IF ~mon[m].alive /\ Index[Current(m)] # Absent
              THEN [Crossed(m) EXCEPT ![m].pc = "remove"]
              ELSE Advance(m, Crossed(m))
    /\ UNCHANGED <<coreVars, phase, req, panics, removed, histVars, concVars>>

\* pool.AddServer(server)
HealthCheckAdd(m) ==
    /\ mon[m].pc = "add"
    /\ Len(servers) < MaxHeapLen
    /\ Store(AddServer(Pool, Current(m)))
    /\ removed' = removed \ {Current(m)}
    /\ mon' = Advance(m, Crossed(m))
    /\ UNCHANGED <<Weight, Health, allServers, phase, req, panics,
                   histVars, concVars>>

\* pool.RemoveServer(server)
HealthCheckRemove(m) ==
    /\ mon[m].pc = "remove"
    /\ Store(RemoveServer(Pool, Current(m)))
    /\ removed' = IF Index[Current(m)] # Absent
                  THEN removed \cup {Current(m)} ELSE removed
    /\ mon' = Advance(m, Crossed(m))
    /\ UNCHANGED <<Weight, Health, allServers, phase, req, panics,
                   histVars, concVars>>

Next ==
    \/ \E cfg \in [Backend -> ConfigWeights] : LoadConfig(cfg)
    \/ \E r \in Request : ForwardRequestStart(r)
    \/ \E r \in Request : ForwardRequestIncrement(r)
    \/ \E r \in Request : ForwardRequestServed(r)
    \/ \E r \in Request : ForwardRequestPanics(r)
    \/ \E r \in Request : ForwardRequestDecrement(r)
    \/ \E m \in Monitor : HealthCheckStart(m)
    \/ \E m \in Monitor : HealthCheckProbe(m)
    \/ \E m \in Monitor : HealthCheckCheck(m)
    \/ \E m \in Monitor : HealthCheckAdd(m)
    \/ \E m \in Monitor : HealthCheckRemove(m)

Spec == Init /\ [][Next]_vars

\* --------------------------------- the health-check job, a run at a time
\* The program after loadConfig with the runs of the job one after the
\* other, none starting before the last has ended, and requests alongside.
\* The body of the job's loop is one step here: a request changes no Index,
\* so what the body reads between its statements is what it read at first.

InitMonitor ==
    /\ \E cfg \in [Backend -> ConfigWeights] :
          LET empty == [servers |-> <<>>,
                        Index |-> [s \in Server |-> Absent],
                        Active |-> [s \in Server |-> 0],
                        Weight |-> [s \in Server |-> 0]]
              l == LoadEntries(cfg, 1, empty, <<>>)
          IN  /\ servers = l.p.servers
              /\ Index = l.p.Index
              /\ ActiveConnections = l.p.Active
              /\ Weight = l.p.Weight
              /\ allServers = l.all
    /\ Health = [s \in Server |-> s \in Backend]
    /\ phase = "serving"
    /\ req = [r \in Request |-> IdleRequest]
    /\ mon = [m \in Monitor |-> IdleMonitor]
    /\ panics = 0
    /\ removed = {}
    /\ HistAtRest
    /\ ConcAtRest

\* alive := server.Ping(); server.SetHealth(alive); then AddServer,
\* RemoveServer or neither; then the loop goes on.
HealthCheckStep(m, resp) ==
    /\ mon[m].pc = "probe"
    /\ LET s == Current(m)
           alive == Ping(resp)
       IN  /\ Health' = [Health EXCEPT ![s] = alive]
           /\ IF alive /\ Index[s] = Absent
              THEN Store(AddServer(Pool, s)) /\ removed' = removed \ {s}
              ELSE IF ~alive /\ Index[s] # Absent
              THEN Store(RemoveServer(Pool, s)) /\ removed' = removed \cup {s}
              ELSE UNCHANGED <<poolVars, removed>>
           /\ Called("HealthCheck", s, resp)
    /\ mon' = Advance(m, mon)
    /\ UNCHANGED <<Weight, allServers, phase, req, panics, everAdded, concVars>>

NextMonitor ==
    \/ HealthCheckStart(1)
    \/ \E resp \in ProbeResponses : HealthCheckStep(1, resp)
    \/ \E r \in Request : ForwardRequestStart(r)
    \/ \E r \in Request : ForwardRequestIncrement(r)
    \/ \E r \in Request : ForwardRequestServed(r)
    \/ \E r \in Request : ForwardRequestPanics(r)
    \/ \E r \in Request : ForwardRequestDecrement(r)

SpecMonitor == InitMonitor /\ [][NextMonitor]_vars

\* ------------------------------------- the whole program, fairly scheduled
\* The program with one weight throughout and no forward ending in a panic.
\* main gets to loadConfig, the scheduler fires the job every 2 seconds, the
\* Go runtime runs every goroutine that can run, Ping returns within its 2
\* second timeout, and a goroutine waiting for p.lock gets it.
NextLive ==
    \/ \E cfg \in [Backend -> {DefaultWeight}] : LoadConfig(cfg)
    \/ \E r \in Request : ForwardRequestStart(r)
    \/ \E r \in Request : ForwardRequestIncrement(r)
    \/ \E r \in Request : ForwardRequestServed(r)
    \/ \E r \in Request : ForwardRequestDecrement(r)
    \/ \E m \in Monitor : HealthCheckStart(m)
    \/ \E m \in Monitor : HealthCheckProbe(m)
    \/ \E m \in Monitor : HealthCheckCheck(m)
    \/ \E m \in Monitor : HealthCheckAdd(m)
    \/ \E m \in Monitor : HealthCheckRemove(m)

FairLive ==
    /\ WF_vars(\E cfg \in [Backend -> {DefaultWeight}] : LoadConfig(cfg))
    /\ \A m \in Monitor :
          /\ WF_vars(HealthCheckStart(m))
          /\ WF_vars(HealthCheckProbe(m))
          /\ WF_vars(HealthCheckCheck(m))
          /\ WF_vars(HealthCheckAdd(m))
          /\ WF_vars(HealthCheckRemove(m))
    /\ \A r \in Request :
          /\ WF_vars(ForwardRequestIncrement(r))
          /\ WF_vars(ForwardRequestServed(r))
          /\ WF_vars(ForwardRequestDecrement(r))

SpecLive == Init /\ [][NextLive]_vars /\ FairLive

\* ------------------------------------------- the locks, step by step
\* The goroutines of the program as callers of the pool's methods (each
\* under p.lock) and of the records' accessors (each under the record's
\* s.mux), after loadConfig with equal weights.  A method is its Lock(), the
\* statements of its body one or a few at a time, and its deferred Unlock().

Resting == [pc |-> "idle", op |-> "none", s |-> Nil, tmp |-> 0]

PoolOps == {"AddServer", "RemoveServer", "IncrementActive", "DecrementActive"}

InitLock ==
    /\ \E cfg \in [Backend -> {DefaultWeight}] :
          LET empty == [servers |-> <<>>,
                        Index |-> [s \in Server |-> Absent],
                        Active |-> [s \in Server |-> 0],
                        Weight |-> [s \in Server |-> 0]]
              l == LoadEntries(cfg, 1, empty, <<>>)
          IN  /\ servers = l.p.servers
              /\ Index = l.p.Index
              /\ ActiveConnections = l.p.Active
              /\ Weight = l.p.Weight
              /\ allServers = l.all
    /\ Health = [s \in Server |-> s \in Backend]
    /\ lock = Nil
    /\ mux = NoMux
    /\ caller = [c \in Caller |-> Resting]
    /\ stage = NoTest
    /\ HistAtRest
    /\ SysAtRest

\* The first statement of a pool method's body.
FirstPc(op) ==
    CASE op = "AddServer" -> "push"
      [] op = "RemoveServer" -> "remove"
      [] op \in {"IncrementActive", "DecrementActive"} -> "load"
      [] op = "GetNextServer" -> "peek"

\* Mutant of PoolUnlock: the method returns with p.lock still locked.
PoolUnlockSkipped(c) == lock' = lock

\* defer p.lock.Unlock()
PoolUnlock(c) == lock' = Nil

\* p.lock.Lock() of a pool method called on record s (Nil: GetNextServer).
LockPool(c, op, s) ==
    /\ caller[c].pc = "idle"
    /\ CanLock(c)
    /\ op = "AddServer" => Index[s] = Absent /\ Len(servers) < MaxHeapLen
    /\ op = "IncrementActive" => ActiveConnections[s] < MaxConn
    /\ op = "DecrementActive" => ActiveConnections[s] > 0
    /\ lock' = c
    /\ caller' = [caller EXCEPT ![c] =
                    [pc |-> FirstPc(op), op |-> op, s |-> s, tmp |-> 0]]
    /\ UNCHANGED <<coreVars, histVars, sysVars, stage, mux>>

\* AddServer: heap.Push, first h.Push(x) ...
PoolPush(c) ==
    /\ caller[c].pc = "push"
    /\ Store(Push(Pool, caller[c].s))
    /\ caller' = [caller EXCEPT ![c].pc = "up"]
    /\ UNCHANGED <<Weight, Health, allServers, histVars, sysVars, lock, stage, mux>>

\* ... then up(h, h.Len()-1), and the method returns.
PoolUp(c) ==
    /\ caller[c].pc = "up"
    /\ Store(up(Pool, Len(servers) - 1))
    /\ PoolUnlock(c)
    /\ caller' = [caller EXCEPT ![c] = Resting]
    /\ UNCHANGED <<Weight, Health, allServers, histVars, sysVars, stage, mux>>

\* RemoveServer: its body, and the method returns.
PoolRemove(c) ==
    /\ caller[c].pc = "remove"
    /\ Store(RemoveServer(Pool, caller[c].s))
    /\ PoolUnlock(c)
    /\ caller' = [caller EXCEPT ![c] = Resting]
    /\ UNCHANGED <<Weight, Health, allServers, histVars, sysVars, stage, mux>>

\* IncrementActive / DecrementActive: s.ActiveConnections++ (--) reads ...
PoolLoad(c) ==
    /\ caller[c].pc = "load"
    /\ caller' = [caller EXCEPT ![c].pc = "store",
                                ![c].tmp = ActiveConnections[caller[c].s]]
    /\ UNCHANGED <<coreVars, histVars, sysVars, lock, stage, mux>>

\* ... and writes the count;
PoolStore(c) ==
    /\ caller[c].pc = "store"
    /\ ActiveConnections' =
          [ActiveConnections EXCEPT ![caller[c].s] =
              IF caller[c].op = "IncrementActive"
              THEN caller[c].tmp + 1 ELSE caller[c].tmp - 1]
    /\ caller' = [caller EXCEPT ![c].pc = "fix"]
    /\ UNCHANGED <<servers, Index, Weight, Health, allServers, histVars,
                   sysVars, lock, stage, mux>>

\* then if s.Index != -1 { heap.Fix(&p.servers, s.Index) }, and the method
\* returns.
PoolFix(c) ==
    /\ caller[c].pc = "fix"
    /\ Store(IF Index[caller[c].s] # Absent
             THEN HeapFix(Pool, Index[caller[c].s]) ELSE Pool)
    /\ PoolUnlock(c)
    /\ caller' = [caller EXCEPT ![c] = Resting]
    /\ UNCHANGED <<Weight, Health, allServers, histVars, sysVars, stage, mux>>

\* GetNextServer: its body, and the method returns.
PoolPeek(c) ==
    /\ caller[c].pc = "peek"
    /\ PoolUnlock(c)
    /\ caller' = [caller EXCEPT ![c] = Resting]
    /\ UNCHANGED <<coreVars, histVars, sysVars, stage, mux>>

\* SetHealth(alive): s.mux.Lock() returns when no one holds s.mux.
LockMux(c, s, alive) ==
    /\ caller[c].pc = "idle"
    /\ mux[s].w = Nil /\ mux[s].r = {}
    /\ mux' = [mux EXCEPT ![s].w = c]
    /\ caller' = [caller EXCEPT ![c] =
                    [pc |-> "write", op |-> "SetHealth", s |-> s,
                     tmp |-> IF alive THEN 1 ELSE 0]]
    /\ UNCHANGED <<coreVars, histVars, sysVars, lock, stage>>

\* s.Health = alive, and the deferred s.mux.Unlock().
MuxWrite(c) ==
    /\ caller[c].pc = "write"
    /\ Health' = [Health EXCEPT ![caller[c].s] = (caller[c].tmp = 1)]
    /\ mux' = [mux EXCEPT ![caller[c].s].w = Nil]
    /\ caller' = [caller EXCEPT ![c] = Resting]
    /\ UNCHANGED <<servers, Index, ActiveConnections, Weight, allServers,
                   histVars, sysVars, lock, stage>>

\* CheckHealth / GetActive: s.mux.RLock() returns when no writer holds s.mux.
RLockMux(c, op, s) ==
    /\ caller[c].pc = "idle"
    /\ mux[s].w = Nil
    /\ mux' = [mux EXCEPT ![s].r = @ \cup {c}]
    /\ caller' = [caller EXCEPT ![c] =
                    [pc |-> "read", op |-> op, s |-> s, tmp |-> 0]]
    /\ UNCHANGED <<coreVars, histVars, sysVars, lock, stage>>

\* return s.Health / return s.ActiveConnections, and the deferred RUnlock().
MuxRead(c) ==
    /\ caller[c].pc = "read"
    /\ mux' = [mux EXCEPT ![caller[c].s].r = @ \ {c}]
    /\ caller' = [caller EXCEPT ![c] = Resting]
    /\ UNCHANGED <<coreVars, histVars, sysVars, lock, stage>>

\* The step of a caller that is inside a method.
InsideStep(c) ==
    \/ PoolPush(c) \/ PoolUp(c) \/ PoolRemove(c)
    \/ PoolLoad(c) \/ PoolStore(c) \/ PoolFix(c) \/ PoolPeek(c)
    \/ MuxWrite(c) \/ MuxRead(c)

NextLock ==
    \/ \E c \in Caller, op \in PoolOps, s \in Backend : LockPool(c, op, s)
    \/ \E c \in Caller : LockPool(c, "GetNextServer", Nil)
    \/ \E c \in Caller, s \in Backend, alive \in BOOLEAN : LockMux(c, s, alive)
    \/ \E c \in Caller, s \in Backend :
          RLockMux(c, "CheckHealth", s) \/ RLockMux(c, "GetActive", s)
    \/ \E c \in Caller : PoolPush(c)
    \/ \E c \in Caller : PoolUp(c)
    \/ \E c \in Caller : PoolRemove(c)
    \/ \E c \in Caller : PoolLoad(c)
    \/ \E c \in Caller : PoolStore(c)
    \/ \E c \in Caller : PoolFix(c)
    \/ \E c \in Caller : PoolPeek(c)
    \/ \E c \in Caller : MuxWrite(c)
    \/ \E c \in Caller : MuxRead(c)

SpecLock == InitLock /\ [][NextLock]_vars

\* Every caller that is inside a method gets to take its step.
FairLock == \A c \in Caller : WF_vars(InsideStep(c))

SpecLockFair == InitLock /\ [][NextLock]_vars /\ FairLock

\* ------------------------------------------------- claims on the pool

\* active_connections/weight of record s is at most that of record t.
RatioLeq(s, t) ==
    ActiveConnections[s] * Weight[t] <= ActiveConnections[t] * Weight[s]

\* C1: after any sequence of AddServer, RemoveServer, IncrementActive and
\* DecrementActive calls, when the pool is not empty the record GetNextServer
\* returns (slot 0) has a ratio active_connections/weight at most that of
\* every record in the array.
C1_RootIsMinimal ==
    Len(servers) > 0 =>
        \A i \in 1..Len(servers) : RatioLeq(GetNextServer(Pool), servers[i])

\* C3: GetNextServer on a pool with no members returns nil, never a record,
\* for a fresh pool and for one emptied by RemoveServer calls.
C3_EmptyReturnsNil ==
    (lastOp.op = "GetNextServer" /\ Len(servers) = 0) => lastOp.ret = Nil

\* Reached: GetNextServer answered nil on a pool that had members before.
C3_EmptiedWitness ==
    /\ lastOp.op = "GetNextServer"
    /\ lastOp.ret = Nil
    /\ Len(servers) = 0
    /\ everAdded # {}

\* C7, as claimed: IncrementActive and DecrementActive on a record whose
\* position is -1 change nothing: not the array, no position, no count.
C7_AbsentChangesNothing ==
    [][(lastOp'.op \in {"IncrementActive", "DecrementActive"} /\ lastOp'.absent)
        => UNCHANGED <<servers, Index, ActiveConnections>>]_vars

\* C7, amended: on a record whose position is -1 they leave the array and
\* every position as they were, and add 1 to (subtract 1 from) that record's
\* active_connections and no other.
C7_AbsentKeepsArrayMovesCount ==
    [][/\ (lastOp'.op = "IncrementActive" /\ lastOp'.absent) =>
            /\ UNCHANGED <<servers, Index>>
            /\ ActiveConnections' =
                 [ActiveConnections EXCEPT ![lastOp'.s] = @ + 1]
       /\ (lastOp'.op = "DecrementActive" /\ lastOp'.absent) =>
            /\ UNCHANGED <<servers, Index>>
            /\ ActiveConnections' =
                 [ActiveConnections EXCEPT ![lastOp'.s] = @ - 1]]_vars

\* Reached: IncrementActive ran on a record that had been a member and is
\* absent now, while the pool has other members.
C7_AbsentWitness ==
    /\ lastOp.op = "IncrementActive"
    /\ lastOp.absent
    /\ lastOp.s \in everAdded
    /\ Len(servers) > 0
    /\ ActiveConnections[lastOp.s] > 0

\* C8: RemoveServer on a record whose position is already absent changes
\* nothing, and every RemoveServer leaves the position absent, so a second
\* RemoveServer is such a call and leaves the state of the first.
C8_RemoveIdempotent ==
    [][lastOp'.op = "RemoveServer" =>
        /\ Index'[lastOp'.s] = Absent
        /\ lastOp'.absent => UNCHANGED <<servers, Index, ActiveConnections>>]_vars

\* Reached: RemoveServer ran on an absent record that had been a member,
\* while the pool has other members.
C8_RemoveAbsentWitness ==
    /\ lastOp.op = "RemoveServer"
    /\ lastOp.absent
    /\ lastOp.s \in everAdded
    /\ Len(servers) > 0

\* C9: AddServer on a record that is already in the array adds no second
\* entry: the length is unchanged, the record holds exactly one slot and its
\* Index is that slot.
C9_AddPresentNoDuplicate ==
    [][(lastOp'.op = "AddServer" /\ Slots(servers, lastOp'.s) # {}) =>
        /\ Len(servers') = Len(servers)
        /\ Cardinality(Slots(servers', lastOp'.s)) = 1
        /\ servers'[Index'[lastOp'.s] + 1] = lastOp'.s]_vars

\* C2: N concurrent IncrementActive calls on a record leave its count at the
\* prior value plus N, and N concurrent DecrementActive calls after them
\* leave it at the prior value, in every interleaving.
C2_NoLostUpdate ==
    /\ (stage.at = "inc" /\ AllDone) =>
          ActiveConnections[stage.s] = stage.prior + stage.n
    /\ (stage.at \in {"dec", "end"} /\ stage.s # Nil /\ AllDone) =>
          ActiveConnections[stage.s] = stage.prior

\* Reached: both phases over, with as many callers as there are, on a record
\* that is a member of a heap with other members.
C2_BothPhasesWitness ==
    /\ stage.at = "end"
    /\ stage.s # Nil
    /\ stage.n = NumCallers
    /\ Index[stage.s] # Absent
    /\ Len(servers) > 1

\* -------------------------------------------- claims on the whole program

\* C4: a request that finds the pool empty is answered 503 and ends there:
\* the array, every position, count and health flag are as before, and the
\* request neither increments, forwards nor decrements.
C4_UnavailableChangesNothing ==
    [][\A r \in Request :
        (req[r].pc = "idle" /\ req'[r] # req[r] /\ Len(servers) = 0) =>
            /\ req'[r].pc = "idle"
            /\ req'[r].status = "unavailable"
            /\ ~req'[r].acquired
            /\ UNCHANGED coreVars]_vars

\* Reached: a request answered 503 by a running program whose pool is empty.
C4_UnavailableWitness ==
    \E r \in Request :
        /\ phase = "serving"
        /\ Len(servers) = 0
        /\ req[r].pc = "idle"
        /\ req[r].status = "unavailable"

\* C5: a request that has run IncrementActive runs DecrementActive on every
\* way out of the handler: no request is over while it still holds the count
\* it added.
C5_DecrementOnEveryExit ==
    \A r \in Request : req[r].pc = "idle" => ~req[r].acquired

\* C6: a record removed by a health check is not returned by GetNextServer
\* until it is added again.
C6_RemovedNeverReturned ==
    \A s \in removed : GetNextServer(Pool) # s

\* C10: when a health-check step on a record ends, no other run having
\* worked on the same record meanwhile, the health flag is the probe result
\* and the record is in the array iff the probe succeeded.
C10_MemberIffProbeSucceeded ==
    [][\A m \in Monitor :
        (/\ mon[m].pc \in {"check", "add", "remove"}
         /\ mon'[m].pc \in {"probe", "idle"}
         /\ mon[m].clean) =>
            /\ Health'[Current(m)] = mon[m].alive
            /\ (Slots(servers', Current(m)) # {}) <=> mon[m].alive]_vars

\* C11, as claimed: a request whose GetNextServer finds the array empty, or
\* finds only records with health flag false in it, is answered 503: no
\* record is chosen, none is incremented and nothing is forwarded.
C11_UnavailableWhenNoneHealthy ==
    [][\A r \in Request :
        (/\ req[r].pc = "idle"
         /\ req'[r] # req[r]
         /\ \A i \in 1..Len(servers) : ~Health[servers[i]]) =>
            /\ req'[r].pc = "idle"
            /\ req'[r].status = "unavailable"
            /\ req'[r].target = Nil
            /\ UNCHANGED coreVars]_vars

ProbeReturns(m, s) ==
    mon[m].pc = "probe" /\ Current(m) = s /\ mon'[m].pc = "check"

\* Every probe of record s that returns in this step has failed (succeeded).
ProbesFailOn(s) == \A m \in Monitor : ProbeReturns(m, s) => ~mon'[m].alive
ProbesSucceedOn(s) == \A m \in Monitor : ProbeReturns(m, s) => mon'[m].alive

\* Every run of the job comes to its end, over and over: no call it makes
\* waits for ever.
EveryRunEnds == \A m \in Monitor : []<>(mon[m].pc = "idle")

\* C13: under fair scheduling, a backend whose probes fail from some point
\* on is in the end out of the array for good, and so never returned by
\* GetNextServer from then on; a backend whose probes succeed from some point
\* on is in the end in the array for good.
C13_ProbesSettleMembership ==
    \A s \in Backend :
        /\ (EveryRunEnds /\ <>[][ProbesFailOn(s)]_vars) =>
              <>[](Slots(servers, s) = {} /\ GetNextServer(Pool) # s)
        /\ (EveryRunEnds /\ <>[][ProbesSucceedOn(s)]_vars) =>
              <>[](Slots(servers, s) # {})

\* C14: in every state the program reaches (loadConfig, requests and
\* health-check runs interleaved in any way, a request's backend removed or
\* added again while the request is in flight), every record's
\* ActiveConnections is at least 0.
C14_ActiveNeverNegative ==
    \A s \in Server : ActiveConnections[s] >= 0

\* Reached: a request that has incremented its backend and been served is
\* about to decrement it, and a health check has removed that backend
\* meanwhile; no other request holds it.
C14_RemovedInFlightWitness ==
    \E r \in Request :
        /\ req[r].pc = "decrement"
        /\ req[r].acquired
        /\ req[r].target \in removed
        /\ Index[req[r].target] = Absent
        /\ ActiveConnections[req[r].target] = 1

\* C15: in every state, for every known record, Index is -1 if and only if
\* the record is in no slot of the array, so that no GetNextServer can
\* return it.
C15_AbsentIffInNoSlot ==
    \A k \in 1..Len(allServers) :
        Index[allServers[k]] = Absent <=> Slots(servers, allServers[k]) = {}

\* C16: loadConfig on a file of n entries, run on an empty allServers and an
\* empty pool, leaves allServers with exactly the n records in the order of
\* the file and the array with exactly the same n records, each once, each
\* with Health true, 0 ActiveConnections and an Index that is its own slot.
C16_LoadConfigFillsBoth ==
    [][(phase = "boot" /\ phase' = "serving") =>
        /\ allServers' = [k \in 1..NumBackends |-> k]
        /\ Len(servers') = NumBackends
        /\ \A s \in Backend :
              /\ Cardinality(Slots(servers', s)) = 1
              /\ Index'[s] # Absent
              /\ Slots(servers', s) = {Index'[s] + 1}
              /\ Health'[s]
              /\ ActiveConnections'[s] = 0]_vars

\* Reached: loadConfig has returned on a file whose entries differ in their
\* weight, one of them with a weight that is not positive, and nothing else
\* has run yet.
C16_LoadedWitness ==
    /\ phase = "serving"
    /\ Len(allServers) = NumBackends
    /\ Len(servers) = NumBackends
    /\ Weight[1] = DefaultWeight /\ Weight[2] > Weight[1]
    /\ \A m \in Monitor : mon[m] = IdleMonitor
    /\ \A r \in Request : req[r] = IdleRequest
    /\ panics = 0

C18_NoDoubleNoUnreachable ==
    \A s \in Server :
        /\ Cardinality(Slots(servers, s)) <= 1
        /\ Slots(servers, s) # {} => Index[s] # Absent

\* The array is a binary min-heap by active_connections/weight: the record at
\* slot (i-1)/2 has a ratio at most that of the record at slot i.
IsHeap(arr) ==
    \A i \in 1..(Len(arr) - 1) : RatioLeq(arr[Parent(i) + 1], arr[i + 1])

\* C19: in every state the array is a binary min-heap under the ratio order;
\* AddServer, RemoveServer, IncrementActive and DecrementActive keep it one.
C19_ArrayIsMinHeap == IsHeap(servers)

\* A run of the job stands between its write of record s's health flag and
\* the end of its work on s.
Midway(s) ==
    \E m \in Monitor : mon[m].pc \in {"check", "add", "remove"} /\ Current(m) = s

\* C20: for every known backend, whenever no health-check step is midway on
\* it, it is in the array if and only if its health flag is true; and it
\* comes into the array only on a probe that succeeded, leaves it only on a
\* probe that failed.
C20_PresentIffHealthy ==
    /\ [](\A k \in 1..Len(allServers) :
            LET s == allServers[k]
            IN  ~Midway(s) => (Slots(servers, s) # {} <=> Health[s]))
    /\ [][phase = "serving" =>
            \A s \in Backend :
                /\ (Slots(servers, s) = {} /\ Slots(servers', s) # {}) =>
                      \E m \in Monitor : mon[m].pc = "add" /\ Current(m) = s
                                         /\ mon[m].alive
                /\ (Slots(servers, s) # {} /\ Slots(servers', s) = {}) =>
                      \E m \in Monitor : mon[m].pc = "remove" /\ Current(m) = s
                                         /\ ~mon[m].alive]_vars

\* C21: whenever an AddServer of a record takes effect, by loadConfig or by
\* a health check on a recovery, the record's health flag is true at that
\* moment.
C21_HealthyWhenAdded ==
    [][\A s \in Server :
        Cardinality(Slots(servers', s)) > Cardinality(Slots(servers, s))
            => Health'[s]]_vars

\* A run of the job has written record s's health flag false and has not
\* yet removed s, which is still in the array under its Index.
RemovalPending(s) ==
    /\ ~Health[s]
    /\ Index[s] # Absent
    /\ \E m \in Monitor : /\ mon[m].pc \in {"check", "remove"}
                          /\ Current(m) = s
                          /\ ~mon[m].alive

\* C22: once a record's health flag has gone from true to false, no
\* IncrementActive and no DecrementActive is applied to the record before
\* its RemoveServer has taken effect, however requests and health checks
\* interleave.
C22_NoLoadChangeBeforeRemoval ==
    [][\A s \in Backend :
        (phase = "serving" /\ RemovalPending(s)) =>
            ActiveConnections'[s] = ActiveConnections[s]]_vars

\* C26: every record loadConfig makes has the configured weight when that is
\* above 0 and weight 1 otherwise; no later step (AddServer, RemoveServer,
\* IncrementActive, DecrementActive, health check) changes a weight; so every
\* record in the array has a weight of at least 1 and its ratio is defined.
C26_WeightNormalisedAndFixed ==
    /\ [](\A i \in 1..Len(servers) : Weight[servers[i]] >= 1)
    /\ [][/\ \A cfg \in [Backend -> ConfigWeights] :
                LoadConfig(cfg) =>
                    \A s \in Backend :
                        Weight'[s] = IF cfg[s] > 0 THEN cfg[s] ELSE 1
          /\ phase = "serving" => Weight' = Weight]_vars

\* Reached: records loaded with weights 1 and 2, and since then a request
\* has raised a count and a health check has removed a record.
C26_LoadedAndUsedWitness ==
    /\ phase = "serving"
    /\ Weight[1] = 1 /\ Weight[2] = 2
    /\ \E s \in Backend : ActiveConnections[s] > 0
    /\ removed # {}
    /\ Len(servers) > 0

\* C28: in every state the record in slot i of the array has Index = i: every
\* swap made by AddServer, RemoveServer, IncrementActive or DecrementActive
\* writes the Index of both records it moves, and nothing but the pool's
\* methods writes an Index.
C28_SlotHoldsItsIndex ==
    \A i \in 1..Len(servers) : Index[servers[i]] = i - 1

\* The requests in flight on record s: IncrementActive done, DecrementActive
\* not yet, the handler still running.
InFlight(s) ==
    {r \in Request : req[r].pc \in {"forward", "decrement"} /\ req[r].target = s}

\* C29: in every state each record's ActiveConnections is the number of
\* requests that have run IncrementActive on it and not yet DecrementActive,
\* also when the record was removed or added again meanwhile; with every
\* request over, every count is 0.
C29_CountIsRequestsInFlight ==
    \A s \in Server : ActiveConnections[s] = Cardinality(InFlight(s))

\* Record s is in the array.
Member(arr, s) == Slots(arr, s) # {}

\* C25: a health-check step whose probe result equals the health flag the
\* record already has makes no AddServer and no RemoveServer and writes no
\* log line: after such a probe, made while no other run is midway on the
\* record, the job's test of alive and Index takes neither branch.  And a
\* log line is written only by a step that changes the record's membership:
\* the AddServer or RemoveServer that follows the log line puts the record
\* in or takes it out.
C25_NoChurnWhenResultMatches ==
    [][\A m \in Monitor :
        LET s == Current(m)
        IN  /\ (ProbeReturns(m, s) /\ mon'[m].alive = Health[s] /\ ~Midway(s)) =>
                  /\ ~(mon'[m].alive /\ Index[s] = Absent)
                  /\ ~(~mon'[m].alive /\ Index[s] # Absent)
            /\ (mon[m].pc \in {"add", "remove"} /\ mon'[m].pc # mon[m].pc) =>
                  Member(servers', s) # Member(servers, s)]_vars

\* A caller between the Lock() and the Unlock() of a pool method.
InPool(c) ==
    caller[c].pc \in {"push", "up", "remove", "load", "store", "fix", "peek"}

\* The records whose s.mux caller c holds, for writing or for reading.
MuxHeld(c) == {s \in Server : mux[s].w = c \/ c \in mux[s].r}

\* C23: AddServer, RemoveServer, IncrementActive, DecrementActive and
\* GetNextServer are mutually exclusive: at most one caller is inside the
\* critical section of one of them at any time, and while a caller is inside
\* one (in particular between the count update and the heap re-fix of an
\* Increment/Decrement) no step of another caller enters a selector operation
\* or changes the array, an index or a count.
C23_PoolOpsExclusive ==
    /\ [](Cardinality({c \in Caller : InPool(c)}) <= 1)
    /\ [][\A c \in Caller :
             (InPool(c) /\ caller'[c] = caller[c]) =>
                /\ UNCHANGED <<servers, Index, ActiveConnections>>
                /\ \A d \in Caller \ {c} : ~InPool(d)']_vars

\* C23 witness: one caller is between the count update and the heap re-fix of
\* an IncrementActive on a member of the array while a second caller waits
\* at rest and a third is inside an accessor of a record.
C23_MidIncrementWitness ==
    \E c, d \in Caller :
        /\ caller[c].pc = "fix" /\ caller[c].op = "IncrementActive"
        /\ Index[caller[c].s] # Absent
        /\ caller[d].pc \in {"read", "write"}
        /\ \E e \in Caller \ {c, d} : caller[e].pc = "idle"

\* C24: every read of a record's ActiveConnections by GetActive is mutually
\* exclusive with every IncrementActive/DecrementActive write of the same
\* record: no caller is inside GetActive(s) while another is inside
\* IncrementActive(s) or DecrementActive(s).
C24_SnapshotExcludesCountUpdate ==
    \A c, d \in Caller :
        ~ /\ caller[c].pc = "read" /\ caller[c].op = "GetActive"
          /\ caller[d].pc \in {"load", "store", "fix"}
          /\ caller[d].s = caller[c].s

\* C27: no caller holds p.lock and a record's s.mux at once, nor two
\* s.mux; a caller that has returned holds no lock; a caller inside a method
\* holds the lock of that method and its next step is enabled; and every
\* caller that is inside a method returns from it, holding no lock, later on.
C27_NoNestingNoDeadlock ==
    /\ [](\A c \in Caller :
            /\ ~(lock = c /\ MuxHeld(c) # {})
            /\ Cardinality(MuxHeld(c)) <= 1
            /\ caller[c].pc = "idle" => (lock # c /\ MuxHeld(c) = {})
            /\ InPool(c) => lock = c
            /\ caller[c].pc \in {"read", "write"} => MuxHeld(c) = {caller[c].s}
            /\ caller[c].pc # "idle" => ENABLED InsideStep(c))
    /\ \A c \in Caller : []<>(caller[c].pc = "idle")

\* C27 witness: one caller holds p.lock inside RemoveServer while a second
\* holds the write side of one record's s.mux and a third the read side of
\* the other record's.
C27_AllLocksHeldWitness ==
    \E c, d, e \in Caller :
        /\ lock = c /\ caller[c].op = "RemoveServer"
        /\ caller[d].pc = "write" /\ caller[e].pc = "read"
        /\ caller[d].s # caller[e].s

====
